---- MODULE Spec2Model ----
(***************************************************************************)
(* A model of the Result library: the two classes Ok and Err with their    *)
(* methods (src/src/result.ts), the constructors ok and err and the        *)
(* capture adapters tryFn and tryAsync (src/unnamed/part_000, lines 343 to *)
(* 388).                                                                   *)
(*                                                                         *)
(* JavaScript values are records [t, s, a]: t is the type tag, s the text  *)
(* of a primitive (a string is a sequence of text chunks, a number is held *)
(* by its decimal text), a the heap address of an object.  Objects live in *)
(* heap, a sequence that only grows; the address of an object is its index.*)
(***************************************************************************)
EXTENDS Integers, Sequences, FiniteSets, TLC

VARIABLES heap, last, chain, task, law

vars == <<heap, last, chain, task, law>>

(***************************************************************************)
(* Bounds of the model.                                                    *)
(***************************************************************************)
\* calls that may construct an object are made while fewer than this many
\* objects have been added to the heap
MaxAlloc == 2
\* a chain of map and andThen calls is followed for at most this many calls
MaxChain == 2

(***************************************************************************)
(* Values.                                                                 *)
(***************************************************************************)
Undefined == [t |-> "undefined", s |-> <<>>, a |-> 0]
Null == [t |-> "null", s |-> <<>>, a |-> 0]
Num404 == [t |-> "number", s |-> <<"404">>, a |-> 0]
StrHttp == [t |-> "string", s |-> <<"HTTP error: ", "404">>, a |-> 0]
Sym == [t |-> "symbol", s |-> <<"tag">>, a |-> 0]
\* the promise a computation returns; its state is held in task
Promise == [t |-> "promise", s |-> <<>>, a |-> 0]
Ref(a) == [t |-> "ref", s |-> <<>>, a |-> a]

Prims == {Undefined, Null, Num404, StrHttp, Sym}

(***************************************************************************)
(* Objects.  cls is the class of the object; payload is the field value of *)
(* an Ok and the field error of an Err; msg is the message property of an  *)
(* object that has one (hasMsg).                                           *)
(***************************************************************************)
Obj(cls, payload, hasMsg, msg) ==
    [cls |-> cls, payload |-> payload, hasMsg |-> hasMsg, msg |-> msg]

\* new Ok(value): result.ts line 11
NewOk(value) == Obj("Ok", value, FALSE, <<>>)
\* new Err(error): result.ts line 97
NewErr(error) == Obj("Err", error, FALSE, <<>>)
\* new Error(message)
NewError(message) == Obj("Error", Undefined, TRUE, message)
\* the TypeError the engine raises when a value has no string conversion
NewTypeError == Obj("TypeError", Undefined, TRUE, <<"Cannot convert to string">>)

\* The objects of the environment, which exist before the library is called:
\* an Error instance, a plain object with a message field (the validation
\* error of the tests) and an object with no prototype
\* (Object.create(null)), which has no toString.
HttpError == NewError(<<"HTTP error: ", "404">>)
ValidationError == Obj("Object", Undefined, TRUE, <<"Username is required">>)
BareObject == Obj("NullProto", Undefined, FALSE, <<>>)

\* The heap the run starts from: the three objects above, at addresses 1 to
\* 3, and two Results the caller made before with ok(404) and
\* err(validation error), at addresses 4 and 5.
InitHeap == <<HttpError, ValidationError, BareObject,
              NewOk(Num404), NewErr(Ref(2))>>
NExt == Len(InitHeap)

Refs(h) == {Ref(a) : a \in 1..Len(h)}
\* the values a computation may return or raise, and a promise settle with
Vals == Prims \cup Refs(InitHeap)
\* the values a caller passes to ok and err
Payloads == {Sym}
\* the default values a caller passes to unwrapOr and mapOr
Defaults == {Undefined}
IsResult(h, x) == x.t = "ref" /\ h[x.a].cls \in {"Ok", "Err"}
Results(h) == {x \in Refs(h) : IsResult(h, x)}

(***************************************************************************)
(* Conversions of the language.                                            *)
(***************************************************************************)
\* error instanceof Error
instanceofError(h, x) == x.t = "ref" /\ h[x.a].cls \in {"Error", "TypeError"}

\* x has a message property
HasMessage(h, x) == x.t = "ref" /\ h[x.a].hasMsg

\* Object.prototype.toString and Error.prototype.toString
ObjectToString(o) ==
    CASE o.cls = "Error" -> <<"Error", ": ">> \o o.msg
      [] o.cls = "TypeError" -> <<"TypeError", ": ">> \o o.msg
      [] OTHER -> <<"[object Object]">>

\* String(x) raises a TypeError for an object that has no toString
StringThrows(h, x) == x.t = "ref" /\ h[x.a].cls = "NullProto"

\* String(x), where it does not raise
String(h, x) ==
    CASE x.t = "undefined" -> <<"undefined">>
      [] x.t = "null" -> <<"null">>
      [] x.t = "number" -> x.s
      [] x.t = "string" -> x.s
      [] x.t = "symbol" -> <<"Symbol(">> \o x.s \o <<")">>
      [] OTHER -> ObjectToString(h[x.a])

\* `${x}` raises a TypeError for a Symbol too
TemplateThrows(h, x) == x.t = "symbol" \/ StringThrows(h, x)

\* `${x}`, where it does not raise
Template(h, x) == String(h, x)

(***************************************************************************)
(* Outcomes of a call, and the functions a caller supplies.  A function is *)
(* a record [k, v]: "id" returns its argument, "const" returns v, "throw"  *)
(* raises v, "mkOk" returns ok(argument), "mkErr" returns err(v) and       *)
(* "compose" is the composition of two such functions.                     *)
(***************************************************************************)
Return(v) == [k |-> "return", v |-> v]
Throw(v) == [k |-> "throw", v |-> v]
Fn(k, v) == [k |-> k, v |-> v]

\* ok(value): part_000 lines 379-381
ok(h, value) == [h |-> Append(h, NewOk(value)), out |-> Return(Ref(Len(h) + 1))]
\* err(error): part_000 lines 386-388
err(h, error) == [h |-> Append(h, NewErr(error)), out |-> Return(Ref(Len(h) + 1))]

\* fn(arg) for a function that is not a composition
ApplyBase(fn, arg, h) ==
    CASE fn.k = "id" -> [h |-> h, out |-> Return(arg)]
      [] fn.k = "const" -> [h |-> h, out |-> Return(fn.v)]
      [] fn.k = "throw" -> [h |-> h, out |-> Throw(fn.v)]
      [] fn.k = "mkOk" -> ok(h, arg)
      [] OTHER -> err(h, fn.v)

\* x => g(f(x)), the composition a caller writes of two of its functions
Compose(f, g) == [k |-> "compose", v |-> <<f, g>>]

\* fn(arg), in heap h: the heap after the call and its outcome.  The
\* composition calls f, then g on what f returned; what f raises leaves it.
Apply(fn, arg, h) ==
    IF fn.k = "compose"
    THEN LET r == ApplyBase(fn.v[1], arg, h)
         IN  IF r.out.k = "throw" THEN r ELSE ApplyBase(fn.v[2], r.out.v, r.h)
    ELSE ApplyBase(fn, arg, h)

\* the functions of type T -> U a caller may pass
Fns == {Fn("id", Undefined), Fn("const", StrHttp), Fn("throw", Null)}
\* the functions of type T -> Result<U, E> a caller may pass
ResultFns == {Fn("mkOk", Undefined), Fn("mkErr", Sym), Fn("throw", Null),
              Fn("const", Ref(5))}
\* the handlers a caller may pass to match
OkHandlers == {Fn("const", StrHttp), Fn("throw", Null)}
ErrHandlers == {Fn("const", Num404), Fn("throw", Null)}

\* one invocation of a caller's function, as the call log records it
Call(name, arg, out) == [fn |-> name, arg |-> arg, out |-> out]

\* what a method did: the heap after it, its outcome, the calls it made of
\* the caller's functions, and the address of the Result it constructed with
\* new (0 when it constructed none)
Eff(h, out, calls, made) == [h |-> h, out |-> out, calls |-> calls, made |-> made]

\* return new Ok(value) / return new Err(error), after the given calls
ReturnNew(h, obj, calls) ==
    Eff(Append(h, obj), Return(Ref(Len(h) + 1)), calls, Len(h) + 1)

True == [t |-> "boolean", s |-> <<"true">>, a |-> 0]
False == [t |-> "boolean", s |-> <<"false">>, a |-> 0]

(***************************************************************************)
(* class Ok: result.ts lines 9-90.  this is the address of the receiver.   *)
(***************************************************************************)
Ok_isOk(h, this) == Eff(h, Return(True), <<>>, 0)

Ok_isErr(h, this) == Eff(h, Return(False), <<>>, 0)

Ok_unwrap(h, this) == Eff(h, Return(h[this].payload), <<>>, 0)

Ok_unwrapOr(h, this, defaultValue) == Eff(h, Return(h[this].payload), <<>>, 0)

\* map that stores fn(value) in the receiver and returns the receiver
Ok_map_inPlace(h, this, fn) ==
    LET r == Apply(fn, h[this].payload, h)
        c == <<Call("fn", h[this].payload, r.out)>>
    IN  IF r.out.k = "throw" THEN Eff(r.h, r.out, c, 0)
        ELSE Eff([r.h EXCEPT ![this] = NewOk(r.out.v)], Return(Ref(this)), c, 0)

\* map that calls fn and returns a new Ok of the value it held
Ok_map_keepsValue(h, this, fn) ==
    LET r == Apply(fn, h[this].payload, h)
        c == <<Call("fn", h[this].payload, r.out)>>
    IN  IF r.out.k = "throw" THEN Eff(r.h, r.out, c, 0)
        ELSE ReturnNew(r.h, NewOk(h[this].payload), c)

Ok_map(h, this, fn) ==
    LET r == Apply(fn, h[this].payload, h)
        c == <<Call("fn", h[this].payload, r.out)>>
    IN  IF r.out.k = "throw" THEN Eff(r.h, r.out, c, 0)
        ELSE ReturnNew(r.h, NewOk(r.out.v), c)

Ok_mapErr(h, this, fn) == ReturnNew(h, NewOk(h[this].payload), <<>>)

Ok_mapOr(h, this, defaultValue, fn) ==
    LET r == Apply(fn, h[this].payload, h)
    IN  Eff(r.h, r.out, <<Call("fn", h[this].payload, r.out)>>, 0)

\* andThen that wraps what fn returned in a new Ok
Ok_andThen_wraps(h, this, fn) ==
    LET r == Apply(fn, h[this].payload, h)
        c == <<Call("fn", h[this].payload, r.out)>>
    IN  IF r.out.k = "throw" THEN Eff(r.h, r.out, c, 0)
        ELSE ReturnNew(r.h, NewOk(r.out.v), c)

Ok_andThen(h, this, fn) ==
    LET r == Apply(fn, h[this].payload, h)
    IN  Eff(r.h, r.out, <<Call("fn", h[this].payload, r.out)>>, 0)

\* or that returns the receiver instead of a new Ok
Ok_or_returnsThis(h, this, res) == Eff(h, Return(Ref(this)), <<>>, 0)

Ok_or(h, this, res) == ReturnNew(h, NewOk(h[this].payload), <<>>)

Ok_unwrapOrElse(h, this, fn) == Eff(h, Return(h[this].payload), <<>>, 0)

Ok_match(h, this, options) ==
    LET r == Apply(options.ok, h[this].payload, h)
    IN  Eff(r.h, r.out, <<Call("ok", h[this].payload, r.out)>>, 0)

(***************************************************************************)
(* class Err: result.ts lines 95-176.                                      *)
(***************************************************************************)
Err_isOk(h, this) == Eff(h, Return(False), <<>>, 0)

Err_isErr(h, this) == Eff(h, Return(True), <<>>, 0)

UnwrapPrefix == <<"Tried to unwrap an Err: ">>

\* throw new Error(`Tried to unwrap an Err: ${this.error}`): the template is
\* evaluated first, and when it raises no Error is constructed
Err_unwrap(h, this) ==
    IF TemplateThrows(h, h[this].payload)
    THEN Eff(Append(h, NewTypeError), Throw(Ref(Len(h) + 1)), <<>>, 0)
    ELSE Eff(Append(h, NewError(UnwrapPrefix \o Template(h, h[this].payload))),
             Throw(Ref(Len(h) + 1)), <<>>, 0)

Err_unwrapOr(h, this, defaultValue) == Eff(h, Return(defaultValue), <<>>, 0)

\* map that calls fn on the error before it returns the new Err
Err_map_callsFn(h, this, fn) ==
    LET r == Apply(fn, h[this].payload, h)
    IN  ReturnNew(r.h, NewErr(h[this].payload),
                  <<Call("fn", h[this].payload, r.out)>>)

Err_map(h, this, fn) == ReturnNew(h, NewErr(h[this].payload), <<>>)

\* mapErr that returns fn(error) in a new Ok
Err_mapErr_recovers(h, this, fn) ==
    LET r == Apply(fn, h[this].payload, h)
        c == <<Call("fn", h[this].payload, r.out)>>
    IN  IF r.out.k = "throw" THEN Eff(r.h, r.out, c, 0)
        ELSE ReturnNew(r.h, NewOk(r.out.v), c)

Err_mapErr(h, this, fn) ==
    LET r == Apply(fn, h[this].payload, h)
        c == <<Call("fn", h[this].payload, r.out)>>
    IN  IF r.out.k = "throw" THEN Eff(r.h, r.out, c, 0)
        ELSE ReturnNew(r.h, NewErr(r.out.v), c)

Err_mapOr(h, this, defaultValue, fn) == Eff(h, Return(defaultValue), <<>>, 0)

Err_andThen(h, this, fn) == ReturnNew(h, NewErr(h[this].payload), <<>>)

Err_or(h, this, res) == Eff(h, Return(res), <<>>, 0)

Err_unwrapOrElse(h, this, fn) ==
    LET r == Apply(fn, h[this].payload, h)
    IN  Eff(r.h, r.out, <<Call("fn", h[this].payload, r.out)>>, 0)

\* match that calls the ok handler on an Err as well
Err_match_callsOk(h, this, options) ==
    LET r == Apply(options.ok, h[this].payload, h)
    IN  Eff(r.h, r.out, <<Call("ok", h[this].payload, r.out)>>, 0)

Err_match(h, this, options) ==
    LET r == Apply(options.err, h[this].payload, h)
    IN  Eff(r.h, r.out, <<Call("err", h[this].payload, r.out)>>, 0)

(***************************************************************************)
(* type Result = Ok | Err: a method call on a Result runs the method of    *)
(* the receiver's class.                                                   *)
(***************************************************************************)
IsOkObj(h, this) == h[this].cls = "Ok"

isOk(h, this) == IF IsOkObj(h, this) THEN Ok_isOk(h, this) ELSE Err_isOk(h, this)
isErr(h, this) == IF IsOkObj(h, this) THEN Ok_isErr(h, this) ELSE Err_isErr(h, this)
unwrap(h, this) == IF IsOkObj(h, this) THEN Ok_unwrap(h, this) ELSE Err_unwrap(h, this)
unwrapOr(h, this, d) ==
    IF IsOkObj(h, this) THEN Ok_unwrapOr(h, this, d) ELSE Err_unwrapOr(h, this, d)
map(h, this, fn) == IF IsOkObj(h, this) THEN Ok_map(h, this, fn) ELSE Err_map(h, this, fn)
mapErr(h, this, fn) ==
    IF IsOkObj(h, this) THEN Ok_mapErr(h, this, fn) ELSE Err_mapErr(h, this, fn)
mapOr(h, this, d, fn) ==
    IF IsOkObj(h, this) THEN Ok_mapOr(h, this, d, fn) ELSE Err_mapOr(h, this, d, fn)
andThen(h, this, fn) ==
    IF IsOkObj(h, this) THEN Ok_andThen(h, this, fn) ELSE Err_andThen(h, this, fn)
or(h, this, res) == IF IsOkObj(h, this) THEN Ok_or(h, this, res) ELSE Err_or(h, this, res)
unwrapOrElse(h, this, fn) ==
    IF IsOkObj(h, this) THEN Ok_unwrapOrElse(h, this, fn) ELSE Err_unwrapOrElse(h, this, fn)
match(h, this, options) ==
    IF IsOkObj(h, this) THEN Ok_match(h, this, options) ELSE Err_match(h, this, options)

(***************************************************************************)
(* The capture adapters: part_000 lines 348-374.                           *)
(***************************************************************************)
\* a catch block that keeps whatever has a message
catchError_hasMessage(h, error, calls) ==
    IF HasMessage(h, error) THEN ReturnNew(h, NewErr(error), calls)
    ELSE IF StringThrows(h, error)
    THEN Eff(Append(h, NewTypeError), Throw(Ref(Len(h) + 1)), calls, 0)
    ELSE LET h1 == Append(h, NewError(String(h, error)))
         IN  ReturnNew(h1, NewErr(Ref(Len(h1))), calls)

\* the catch block of both adapters:
\*   return new Err(error instanceof Error ? error : new Error(String(error)))
\* String(error) is evaluated inside the catch block, so what it raises
\* leaves the adapter.
catchError(h, error, calls) ==
    IF instanceofError(h, error) THEN ReturnNew(h, NewErr(error), calls)
    ELSE IF StringThrows(h, error)
    THEN Eff(Append(h, NewTypeError), Throw(Ref(Len(h) + 1)), calls, 0)
    ELSE LET h1 == Append(h, NewError(String(h, error)))
         IN  ReturnNew(h1, NewErr(Ref(Len(h1))), calls)

\* tryFn that calls fn and drops what it returned
tryFn_dropsValue(h, fn) ==
    LET r == Apply(fn, Undefined, h)
        c == <<Call("fn", Undefined, r.out)>>
    IN  IF r.out.k = "return" THEN ReturnNew(r.h, NewOk(Undefined), c)
        ELSE catchError(r.h, r.out.v, c)

\* tryFn(fn)
tryFn(h, fn) ==
    LET r == Apply(fn, Undefined, h)
        c == <<Call("fn", Undefined, r.out)>>
    IN  IF r.out.k = "return" THEN ReturnNew(r.h, NewOk(r.out.v), c)
        ELSE catchError(r.h, r.out.v, c)

\* the computations a caller may pass to an adapter: () => v and () => throw x
Computations == {Fn("const", v) : v \in Vals} \cup {Fn("throw", v) : v \in Vals}

\* the state of a promise
Pending == [k |-> "pending", v |-> Undefined]
Fulfilled(v) == [k |-> "fulfilled", v |-> v]
Rejected(v) == [k |-> "rejected", v |-> v]

\* the promise an async function returns, from the outcome of its body
Settled(out) == IF out.k = "return" THEN Fulfilled(out.v) ELSE Rejected(out.v)

\* tryAsync(fn) after the promise of fn() has settled as comp: the rest of
\* the body, from `const value = await ...` on
tryAsyncResume(h, comp) ==
    IF comp.k = "fulfilled" THEN ReturnNew(h, NewOk(comp.v), <<>>)
    ELSE catchError(h, comp.v, <<>>)

(***************************************************************************)
(* The state machine.  heap holds every object.  last records the last     *)
(* call of the library that has completed: the operation, its receiver and *)
(* argument, its outcome, the calls it made of the caller's functions, the *)
(* Result it constructed with new, the size of the heap before it and, for *)
(* tryAsync, the settlement of the promise it awaited.  task is the        *)
(* latest tryAsync call: whether it is suspended at its await, the state   *)
(* of the promise it awaits (comp) and of the promise it returned (ret),   *)
(* and its call of the computation.  chain                                 *)
(* follows the chain of map and andThen calls in which the receiver of     *)
(* each call is the result of the one before: its current Result, whether  *)
(* a Result of the chain was an Err, the payload of the first such Err,    *)
(* the number of calls of the caller's functions made by the steps after   *)
(* it, the number of those steps and the number of all steps.  law is a    *)
(* caller that evaluates ok(v).map(f).map(g) and ok(v).map(x => g(f(x))):  *)
(* the address x of ok(v), the number of map calls made on each side, the  *)
(* outcome of the last one, and the applications of f and g that the calls *)
(* of the left side made, in order.                                        *)
(***************************************************************************)
NoChain == [cur |-> 0, failed |-> FALSE, first |-> Undefined, late |-> 0,
            since |-> 0, len |-> 0]

Idle == [st |-> "idle", comp |-> Pending, ret |-> Pending, calls |-> <<>>]

NoLaw == [x |-> 0, v |-> Undefined, f |-> Fn("id", Undefined),
          g |-> Fn("id", Undefined), left |-> 0, lout |-> Return(Undefined),
          right |-> 0, rout |-> Return(Undefined), log |-> <<>>]

Init ==
    /\ heap = InitHeap
    /\ last = [op |-> "none", recv |-> 0, arg |-> Undefined, out |-> Return(Undefined),
               calls |-> <<>>, made |-> 0, base |-> NExt, settled |-> Pending]
    /\ chain = NoChain
    /\ task = Idle
    /\ law = NoLaw

\* The continuation of an await is a microtask: once the promise awaited has
\* settled it runs before any further call of the library.
Ready == ~(task.st = "awaiting" /\ task.comp.k # "pending")

CanAlloc == Ready /\ Len(heap) < NExt + MaxAlloc

\* a synchronous call of the library with effect eff
Do(op, recv, arg, eff) ==
    /\ heap' = eff.h
    /\ last' = [op |-> op, recv |-> recv, arg |-> arg, out |-> eff.out,
                calls |-> eff.calls, made |-> eff.made, base |-> Len(heap),
                settled |-> IF task.st = "awaiting" THEN task.comp ELSE Pending]

\* the chain after a map or andThen call on recv with effect eff: the call
\* continues the chain when recv is the chain's current Result and starts a
\* new chain otherwise; a call that raises ends the chain
ChainStep(recv, eff) ==
    LET b == IF chain.cur # 0 /\ chain.cur = recv THEN chain
             ELSE [cur |-> recv, failed |-> heap[recv].cls = "Err",
                   first |-> IF heap[recv].cls = "Err" THEN heap[recv].payload
                             ELSE Undefined,
                   late |-> 0, since |-> 0, len |-> 0]
        res == eff.h[eff.out.v.a]
    IN  IF eff.out.k = "throw" THEN NoChain
        ELSE [cur |-> eff.out.v.a,
              failed |-> b.failed \/ res.cls = "Err",
              first |-> IF b.failed THEN b.first
                        ELSE IF res.cls = "Err" THEN res.payload ELSE Undefined,
              late |-> b.late + (IF b.failed THEN Len(eff.calls) ELSE 0),
              since |-> b.since + (IF b.failed THEN 1 ELSE 0),
              len |-> b.len + 1]

CallOk ==
    /\ CanAlloc
    /\ \E v \in Payloads :
          LET e == ok(heap, v) IN Do("ok", 0, v, Eff(e.h, e.out, <<>>, Len(heap) + 1))
    /\ UNCHANGED <<chain, task, law>>

CallErr ==
    /\ CanAlloc
    /\ \E v \in Payloads :
          LET e == err(heap, v) IN Do("err", 0, v, Eff(e.h, e.out, <<>>, Len(heap) + 1))
    /\ UNCHANGED <<chain, task, law>>

CallTryFn ==
    /\ CanAlloc
    /\ \E fn \in Computations : Do("tryFn", 0, Undefined, tryFn(heap, fn))
    /\ UNCHANGED <<chain, task, law>>

CallIsOk ==
    /\ Ready
    /\ \E r \in Results(heap) : Do("isOk", r.a, Undefined, isOk(heap, r.a))
    /\ UNCHANGED <<chain, task, law>>

CallIsErr ==
    /\ Ready
    /\ \E r \in Results(heap) : Do("isErr", r.a, Undefined, isErr(heap, r.a))
    /\ UNCHANGED <<chain, task, law>>

CallUnwrap ==
    /\ CanAlloc
    /\ \E r \in Results(heap) : Do("unwrap", r.a, Undefined, unwrap(heap, r.a))
    /\ UNCHANGED <<chain, task, law>>

CallUnwrapOr ==
    /\ Ready
    /\ \E r \in Results(heap), d \in Defaults :
          Do("unwrapOr", r.a, d, unwrapOr(heap, r.a, d))
    /\ UNCHANGED <<chain, task, law>>

CallUnwrapOrElse ==
    /\ Ready
    /\ \E r \in Results(heap), fn \in Fns :
          Do("unwrapOrElse", r.a, Undefined, unwrapOrElse(heap, r.a, fn))
    /\ UNCHANGED <<chain, task, law>>

CallMap ==
    /\ CanAlloc
    /\ \E r \in Results(heap), fn \in Fns :
          LET eff == map(heap, r.a, fn)
          IN  /\ ChainStep(r.a, eff).len <= MaxChain
              /\ Do("map", r.a, Undefined, eff)
              /\ chain' = ChainStep(r.a, eff)
    /\ UNCHANGED <<task, law>>

CallMapErr ==
    /\ CanAlloc
    /\ \E r \in Results(heap), fn \in Fns :
          Do("mapErr", r.a, Undefined, mapErr(heap, r.a, fn))
    /\ UNCHANGED <<chain, task, law>>

CallMapOr ==
    /\ Ready
    /\ \E r \in Results(heap), d \in Defaults, fn \in Fns :
          Do("mapOr", r.a, d, mapOr(heap, r.a, d, fn))
    /\ UNCHANGED <<chain, task, law>>

CallAndThen ==
    /\ CanAlloc
    /\ \E r \in Results(heap), fn \in ResultFns :
          LET eff == andThen(heap, r.a, fn)
          IN  /\ ChainStep(r.a, eff).len <= MaxChain
              /\ Do("andThen", r.a, Undefined, eff)
              /\ chain' = ChainStep(r.a, eff)
    /\ UNCHANGED <<task, law>>

CallOr ==
    /\ CanAlloc
    /\ \E r \in Results(heap), res \in Results(InitHeap) :
          Do("or", r.a, res, or(heap, r.a, res))
    /\ UNCHANGED <<chain, task, law>>

CallMatch ==
    /\ Ready
    /\ \E r \in Results(heap), okFn \in OkHandlers, errFn \in ErrHandlers :
          Do("match", r.a, Undefined, match(heap, r.a, [ok |-> okFn, err |-> errFn]))
    /\ UNCHANGED <<chain, task, law>>

\* tryAsync(fn) up to its await: fn() is called once; either it returns a
\* promise and tryAsync suspends, having returned a pending promise
\* (task.ret), or it raises and the catch block handles the exception at
\* once, which settles the promise tryAsync returns.  task is the latest
\* call of tryAsync: a new call is followed in place of one that has settled.
CallTryAsync ==
    /\ CanAlloc
    /\ task.st # "awaiting"
    /\ \/ /\ task' = [st |-> "awaiting", comp |-> Pending, ret |-> Pending,
                      calls |-> <<Call("fn", Undefined, Return(Promise))>>]
          /\ UNCHANGED <<heap, last>>
       \/ \E x \in Vals :
             LET c == <<Call("fn", Undefined, Throw(x))>>
                 eff == catchError(heap, x, c)
             IN  /\ Do("tryAsync", 0, Undefined, eff)
                 /\ task' = [st |-> "settled", comp |-> Pending,
                             ret |-> Settled(eff.out), calls |-> c]
    /\ UNCHANGED <<chain, law>>

\* the promise of the computation settles
CompSettle ==
    /\ task.st = "awaiting"
    /\ task.comp.k = "pending"
    /\ \E v \in Vals :
          \/ task' = [task EXCEPT !.comp = Fulfilled(v)]
          \/ task' = [task EXCEPT !.comp = Rejected(v)]
    /\ UNCHANGED <<heap, last, chain, law>>

\* tryAsync resumes after its await, returns, and so settles the promise it
\* returned (task.ret): last.out is Return(r) for a promise fulfilled with r
\* and Throw(x) for a promise rejected with x; last.settled is the
\* settlement of the promise it awaited
TryAsyncResume ==
    /\ ~Ready
    /\ LET eff == tryAsyncResume(heap, task.comp)
       IN  /\ Do("tryAsync", 0, Undefined,
                 Eff(eff.h, eff.out, task.calls \o eff.calls, eff.made))
           /\ task' = [task EXCEPT !.st = "settled", !.ret = Settled(eff.out)]
    /\ UNCHANGED <<chain, law>>

\* the Result type: the constructors and the methods of Ok and Err
Next ==
    \/ CallOk
    \/ CallErr
    \/ CallIsOk
    \/ CallIsErr
    \/ CallUnwrap
    \/ CallUnwrapOr
    \/ CallUnwrapOrElse
    \/ CallMap
    \/ CallMapErr
    \/ CallMapOr
    \/ CallAndThen
    \/ CallOr
    \/ CallMatch

Spec == Init /\ [][Next]_vars

\* the functions f and g of the caller that evaluates both sides of the law
LawFns == {Fn("id", Undefined), Fn("const", StrHttp), Fn("const", Num404),
           Fn("throw", Null), Fn("mkOk", Undefined), Fn("mkErr", Sym)}

\* the applications of the function named who that a map call made
Applications(who, calls) ==
    [i \in 1..Len(calls) |-> [who |-> who, arg |-> calls[i].arg, out |-> calls[i].out]]

\* const x = ok(v), for some v and with some f and g in hand
LawOk ==
    /\ law.x = 0
    /\ \E v \in Vals, f \in LawFns, g \in LawFns :
          LET e == ok(heap, v)
          IN  /\ Do("ok", 0, v, Eff(e.h, e.out, <<>>, Len(heap) + 1))
              /\ law' = [law EXCEPT !.x = Len(heap) + 1, !.v = v, !.f = f, !.g = g]
    /\ UNCHANGED <<chain, task>>

\* x.map(f)
LawMapF ==
    /\ law.x # 0
    /\ law.left = 0
    /\ LET eff == map(heap, law.x, law.f)
       IN  /\ Do("map", law.x, Undefined, eff)
           /\ chain' = ChainStep(law.x, eff)
           /\ law' = [law EXCEPT !.left = 1, !.lout = eff.out,
                                 !.log = Applications("f", eff.calls)]
    /\ UNCHANGED task

\* .map(g), on the Result x.map(f) returned
LawMapG ==
    /\ law.left = 1
    /\ law.lout.k = "return"
    /\ LET eff == map(heap, law.lout.v.a, law.g)
       IN  /\ Do("map", law.lout.v.a, Undefined, eff)
           /\ chain' = ChainStep(law.lout.v.a, eff)
           /\ law' = [law EXCEPT !.left = 2, !.lout = eff.out,
                                 !.log = law.log \o Applications("g", eff.calls)]
    /\ UNCHANGED task

\* x.map(x => g(f(x)))
LawMapComposed ==
    /\ law.x # 0
    /\ law.right = 0
    /\ LET eff == map(heap, law.x, Compose(law.f, law.g))
       IN  /\ Do("map", law.x, Undefined, eff)
           /\ chain' = ChainStep(law.x, eff)
           /\ law' = [law EXCEPT !.right = 1, !.rout = eff.out]
    /\ UNCHANGED task

\* both sides of the functor law, evaluated by one caller
NextFunctor ==
    \/ LawOk
    \/ LawMapF
    \/ LawMapG
    \/ LawMapComposed

SpecFunctor == Init /\ [][NextFunctor]_vars

\* the capture adapters
NextCapture ==
    \/ CallTryFn
    \/ CallTryAsync
    \/ CompSettle
    \/ TryAsyncResume

SpecCapture == Init /\ [][NextCapture]_vars

\* tryAsync alone.  The continuation of an await whose promise has settled
\* is a job of the microtask queue, which the engine runs: weak fairness of
\* TryAsyncResume.  Nothing makes the promise of a computation settle.
NextAsync ==
    \/ CallTryAsync
    \/ CompSettle
    \/ TryAsyncResume

SpecAsync == Init /\ [][NextAsync]_vars /\ WF_vars(TryAsyncResume)

(***************************************************************************)
(* What the last call of a capture adapter was given: the value its        *)
(* computation returned or its promise was fulfilled with, or the value    *)
(* the computation raised or its promise was rejected with.                *)
(***************************************************************************)
IsCapture == last.op \in {"tryFn", "tryAsync"}
Raised == /\ IsCapture
          /\ \/ last.calls[1].out.k = "throw"
             \/ last.settled.k = "rejected"
RaisedValue == IF last.calls[1].out.k = "throw" THEN last.calls[1].out.v
               ELSE last.settled.v
Completed == /\ IsCapture
             /\ IF last.op = "tryFn" THEN last.calls[1].out.k = "return"
                ELSE last.settled.k = "fulfilled"
CompletedValue == IF last.op = "tryFn" THEN last.calls[1].out.v ELSE last.settled.v
\* the object the last call returned (or fulfilled its promise with)
Returned == heap[last.out.v.a]

(***************************************************************************)
(* C1: whatever value the computation passed to tryFn or tryAsync raises   *)
(* or rejects with, the adapter returns normally (the promise of tryAsync  *)
(* is fulfilled, never rejected) and what it returns is an Err.            *)
(***************************************************************************)
C1_FailureNeverEscapes ==
    Raised => /\ last.out.k = "return"
              /\ last.out.v.t = "ref"
              /\ Returned.cls = "Err"

(***************************************************************************)
(* C2: normalization.  When the computation raises or rejects with an      *)
(* Error, the Err holds that same value; when it raises or rejects with    *)
(* any other value x, the Err holds a newly created Error whose message is *)
(* String(x).  A failure raised with the Error "HTTP error: 404" yields an *)
(* Err whose message is "HTTP error: 404".                                 *)
(***************************************************************************)
C2_Normalization ==
    Raised =>
        /\ last.out.k = "return"
        /\ last.out.v.t = "ref"
        /\ Returned.cls = "Err"
        /\ IF instanceofError(heap, RaisedValue)
           THEN Returned.payload = RaisedValue
           ELSE /\ Returned.payload.t = "ref"
                /\ Returned.payload.a > last.base
                /\ heap[Returned.payload.a].cls = "Error"
                /\ heap[Returned.payload.a].msg = String(heap, RaisedValue)
        /\ RaisedValue = Ref(1) =>
               heap[Returned.payload.a].msg = <<"HTTP error: ", "404">>

C4_SuccessPath ==
    /\ IsCapture => (Len(last.calls) = 1 /\ last.calls[1].fn = "fn")
    /\ Completed =>
           /\ last.out.k = "return"
           /\ last.out.v.t = "ref"
           /\ last.out.v.a > last.base
           /\ Returned = NewOk(CompletedValue)

\* tryAsync has fulfilled its promise with an Ok for a computation whose
\* promise was fulfilled with a value that is itself a Result
C4_WitnessAsync ==
    /\ Completed
    /\ last.op = "tryAsync"
    /\ IsResult(heap, CompletedValue)
    /\ Returned.payload = CompletedValue

(***************************************************************************)
(* The claims about the Result type, under Spec.                           *)
(***************************************************************************)
\* the receiver of the last call
Receiver == heap[last.recv]
IsMethod == last.recv # 0
\* every function of the caller that the last call invoked returned
CallsReturned == \A i \in 1..Len(last.calls) : last.calls[i].out.k = "return"
\* text s occurs in text m
Contains(m, s) == \E i \in 0..(Len(m) - Len(s)) : SubSeq(m, i + 1, i + Len(s)) = s

(***************************************************************************)
(* C5: unwrap on an Ok holding v returns v; unwrap on an Err holding e     *)
(* raises an Error whose message contains String(e) and returns nothing;   *)
(* and a method called with functions that do not raise raises only if it  *)
(* is unwrap on an Err.                                                    *)
(***************************************************************************)
C5_Unwrap ==
    /\ (last.op = "unwrap" /\ Receiver.cls = "Ok") => last.out = Return(Receiver.payload)
    /\ (last.op = "unwrap" /\ Receiver.cls = "Err") =>
           /\ last.out.k = "throw"
           /\ instanceofError(heap, last.out.v)
           /\ Contains(heap[last.out.v.a].msg, String(heap, Receiver.payload))
    /\ (IsMethod /\ CallsReturned /\ last.out.k = "throw") =>
           (last.op = "unwrap" /\ Receiver.cls = "Err")

(***************************************************************************)
(* C6: every Result is one variant for its whole lifetime.  In every state *)
(* isOk and isErr return opposite booleans on every Result of the heap,    *)
(* isOk returning true exactly on an Ok; and no step of the library        *)
(* changes the class or the payload of an object that exists: the heap     *)
(* only grows.                                                             *)
(***************************************************************************)
OppositeAnswers ==
    \A a \in 1..Len(heap) :
        heap[a].cls \in {"Ok", "Err"} =>
            /\ {isOk(heap, a).out, isErr(heap, a).out} = {Return(True), Return(False)}
            /\ isOk(heap, a).out = Return(True) <=> heap[a].cls = "Ok"
            /\ isOk(heap, a).h = heap
            /\ isErr(heap, a).h = heap

NothingChanges ==
    /\ Len(heap') >= Len(heap)
    /\ \A a \in 1..Len(heap) : heap'[a] = heap[a]

C6_OneVariantForLife == [](OppositeAnswers) /\ [][NothingChanges]_vars

\* a Result constructed during the run has been the receiver of a
\* transformer, which returned
C6_Witness ==
    /\ last.op \in {"map", "mapErr", "andThen", "or"}
    /\ last.recv > NExt
    /\ last.out.k = "return"

(***************************************************************************)
(* C7, as claimed: map, mapErr, andThen and or never raise, whatever       *)
(* function or alternative they are given, and the Result they return is   *)
(* one they have newly constructed.                                        *)
(***************************************************************************)
IsTransformer == last.op \in {"map", "mapErr", "andThen", "or"}

C7_TotalAndFresh ==
    IsTransformer =>
        /\ last.out.k = "return"
        /\ last.made = last.out.v.a
        /\ last.made > last.base

(***************************************************************************)
(* C7, amended: map, mapErr, andThen and or raise only what the function   *)
(* they invoke raises, and raise nothing when it returns or is not         *)
(* invoked.  The Result they return is newly constructed by them, except   *)
(* that andThen on an Ok returns the very Result the function returned and *)
(* or on an Err returns the alternative it was given.                      *)
(***************************************************************************)
C7_TotalUpToCallerAndFreshOrGiven ==
    IsTransformer =>
        /\ last.out.k = "throw" =>
               (Len(last.calls) = 1 /\ last.calls[1].out = last.out)
        /\ CallsReturned => last.out.k = "return"
        /\ last.out.k = "return" =>
               /\ IsResult(heap, last.out.v)
               /\ IF last.op = "andThen" /\ Receiver.cls = "Ok"
                  THEN last.made = 0 /\ last.out = last.calls[1].out
                  ELSE IF last.op = "or" /\ Receiver.cls = "Err"
                  THEN last.made = 0 /\ last.out.v = last.arg
                  ELSE last.made = last.out.v.a /\ last.made > last.base

\* or on an Err has returned the alternative itself, an object that existed
\* before the call
C7_Witness ==
    /\ last.op = "or"
    /\ Receiver.cls = "Err"
    /\ last.out = Return(last.arg)
    /\ last.out.v.a <= last.base

(***************************************************************************)
(* C8: match on an Ok holding v calls the ok handler once with v, does not *)
(* call the err handler and returns what the ok handler returned; match on *)
(* an Err holding e calls the err handler once with e, does not call the   *)
(* ok handler and returns what the err handler returned.                   *)
(***************************************************************************)
C8_Match ==
    last.op = "match" =>
        /\ Len(last.calls) = 1
        /\ last.calls[1].fn = (IF Receiver.cls = "Ok" THEN "ok" ELSE "err")
        /\ last.calls[1].arg = Receiver.payload
        /\ last.out = last.calls[1].out

\* match on an Err has returned what the err handler returned
C8_Witness ==
    /\ last.op = "match"
    /\ Receiver.cls = "Err"
    /\ last.calls = <<Call("err", Receiver.payload, Return(Num404))>>
    /\ last.out = Return(Num404)

(***************************************************************************)
(* C9: andThen on an Ok holding v calls f once with v and returns the very *)
(* Result f returned, not a Result that wraps it; andThen on an Err        *)
(* holding e does not call f and returns a new Err that holds e.           *)
(***************************************************************************)
C9_AndThen ==
    last.op = "andThen" =>
        IF Receiver.cls = "Ok"
        THEN /\ last.calls = <<Call("fn", Receiver.payload, last.out)>>
             /\ last.made = 0
        ELSE /\ last.calls = <<>>
             /\ last.out.k = "return"
             /\ last.out.v.a > last.base
             /\ Returned = NewErr(Receiver.payload)

\* andThen on an Ok has returned the Err its function returned
C9_Witness ==
    /\ last.op = "andThen"
    /\ Receiver.cls = "Ok"
    /\ last.out.k = "return"
    /\ Returned.cls = "Err"
    /\ last.calls[1].out = last.out

(***************************************************************************)
(* C10: in a chain of map and andThen calls, once a Result of the chain is *)
(* an Err no later step calls the function it is given, and the Result of  *)
(* the chain is an Err that holds the payload of the first Err.            *)
(***************************************************************************)
C10_ShortCircuit ==
    chain.failed =>
        /\ chain.late = 0
        /\ heap[chain.cur].cls = "Err"
        /\ heap[chain.cur].payload = chain.first

\* a chain whose first step, on an Ok, yielded an Err and which has taken
\* a step after it
C10_Witness ==
    /\ chain.failed
    /\ chain.len = 2
    /\ chain.since = 1
    /\ last.calls = <<>>

(***************************************************************************)
(* C12: map and mapErr each touch their own side.  mapErr on an Ok holding *)
(* v and map on an Err holding e call no function and return a new Result  *)
(* of the receiver's class that holds the same payload; map on an Ok       *)
(* holding v and mapErr on an Err holding e call fn once, on the payload,  *)
(* and when fn returns they return a new Result of the receiver's class    *)
(* that holds what fn returned.  Whenever map or mapErr returns, the       *)
(* Result it returns has the class of its receiver.                        *)
(***************************************************************************)
OwnSide == \/ last.op = "map" /\ Receiver.cls = "Ok"
           \/ last.op = "mapErr" /\ Receiver.cls = "Err"
OtherSide == \/ last.op = "map" /\ Receiver.cls = "Err"
             \/ last.op = "mapErr" /\ Receiver.cls = "Ok"

C12_OwnSideOnly ==
    /\ OtherSide =>
           /\ last.calls = <<>>
           /\ last.out.k = "return"
           /\ last.out.v.a > last.base
           /\ Returned = Obj(Receiver.cls, Receiver.payload, FALSE, <<>>)
    /\ OwnSide =>
           /\ Len(last.calls) = 1
           /\ last.calls[1].arg = Receiver.payload
           /\ last.calls[1].out.k = "return" =>
                  /\ last.out.k = "return"
                  /\ last.out.v.a > last.base
                  /\ Returned = Obj(Receiver.cls, last.calls[1].out.v, FALSE, <<>>)
    /\ (last.op \in {"map", "mapErr"} /\ last.out.k = "return") =>
           Returned.cls = Receiver.cls

\* mapErr on an Err has returned an Err that holds what fn returned, which
\* is not the payload of the receiver
C12_Witness ==
    /\ last.op = "mapErr"
    /\ Receiver.cls = "Err"
    /\ last.out.k = "return"
    /\ Returned = NewErr(StrHttp)
    /\ Receiver.payload # StrHttp

(***************************************************************************)
(* The functor law, under SpecFunctor.                                     *)
(***************************************************************************)
\* x and y are equal as the tests compare values (toEqual): the same
\* primitive, or objects of the same class with equal fields
RECURSIVE DeepEqual(_, _, _)
DeepEqual(h, x, y) ==
    IF x.t = "ref" /\ y.t = "ref"
    THEN /\ h[x.a].cls = h[y.a].cls
         /\ h[x.a].hasMsg = h[y.a].hasMsg
         /\ h[x.a].msg = h[y.a].msg
         /\ DeepEqual(h, h[x.a].payload, h[y.a].payload)
    ELSE x = y

\* ok(v).map(f).map(g) has returned: f and g both returned
LeftReturned == law.left = 2 /\ law.lout.k = "return"

(***************************************************************************)
(* C11: the functor law.  When ok(v).map(f).map(g) has returned, f was     *)
(* applied exactly once, to v, then g exactly once, to what f returned,    *)
(* and the Result is an Ok that holds what g returned; and once            *)
(* ok(v).map(x => g(f(x))) has been evaluated too, it has returned a       *)
(* Result equal to that one.                                               *)
(***************************************************************************)
C11_FunctorLaw ==
    /\ LeftReturned =>
           /\ Len(law.log) = 2
           /\ law.log[1].who = "f"
           /\ law.log[1].arg = law.v
           /\ law.log[2].who = "g"
           /\ law.log[2].arg = law.log[1].out.v
           /\ heap[law.lout.v.a] = NewOk(law.log[2].out.v)
    /\ (LeftReturned /\ law.right = 1) =>
           /\ law.rout.k = "return"
           /\ law.rout.v # law.lout.v
           /\ DeepEqual(heap, law.lout.v, law.rout.v)

\* both sides have been evaluated with f a constant function and g the
\* function that wraps its argument in an Ok: each side is an Ok that holds
\* an Ok of the constant, in an object of its own
C11_Witness ==
    /\ LeftReturned
    /\ law.right = 1
    /\ law.f = Fn("const", StrHttp)
    /\ law.g = Fn("mkOk", Undefined)
    /\ heap[heap[law.lout.v.a].payload.a] = NewOk(StrHttp)
    /\ heap[law.rout.v.a].payload # heap[law.lout.v.a].payload

(***************************************************************************)
(* tryAsync and the settlement of its computation, under SpecAsync.        *)
(***************************************************************************)
Awaiting == task.st = "awaiting"
CompPending == Awaiting /\ task.comp.k = "pending"
CompSettled == Awaiting /\ task.comp.k # "pending"

\* a step in which the promise tryAsync returned settles is taken when the
\* promise it awaits has settled
SettlesAfterComputation ==
    (Awaiting /\ task'.ret # task.ret) => task.comp.k # "pending"

\* a step in which the promise tryAsync returned settles fulfils it with a
\* Result
FulfilsWithResult ==
    (Awaiting /\ task'.ret # task.ret) =>
        (task'.ret.k = "fulfilled" /\ IsResult(heap', task'.ret.v))

(***************************************************************************)
(* C13: tryAsync produces its Result exactly when the computation settles. *)
(* While tryAsync awaits a promise that is pending the promise it returned *)
(* is pending, and it settles only in a step taken after the awaited       *)
(* promise has settled, so that it never settles when the computation      *)
(* never does; once the awaited promise is fulfilled or rejected, the      *)
(* promise tryAsync returned is eventually settled; and when it settles    *)
(* it is fulfilled, with a Result, not rejected.                           *)
(***************************************************************************)
C13_SettlesWithComputation ==
    /\ [](CompPending => task.ret = Pending)
    /\ [][SettlesAfterComputation]_vars
    /\ CompSettled ~> (task.st = "settled")
    /\ [][FulfilsWithResult]_vars

====
